---- MODULE Spec2Model ----
(***************************************************************************)
(* Model of src/src/segment/batch_backend.py (class BatchBackend): the     *)
(* classification engine, the aggregation engine, the batch-job lifecycle  *)
(* and the export packager.                                                *)
(*                                                                         *)
(* Numbers.  The Python code computes in floating point.  Here             *)
(*   - rgb_to_lab is tabulated on a palette of pixel values: the table     *)
(*     holds, for each palette colour, the floor and the ceiling of the    *)
(*     L, a, b values the source formula yields, so that a comparison with *)
(*     an integer bound is decided exactly;                                *)
(*   - brightness (the mean of three channels) is kept as the channel sum  *)
(*     b3 = 3 * brightness, and a comparison "brightness <= x_inters" is   *)
(*     decided in exact rational arithmetic by cross-multiplication;       *)
(*   - a percentage (count / total) * 100.0 is kept as the exact fraction  *)
(*     [num |-> 100 * count, den |-> total].                               *)
(***************************************************************************)
EXTENDS Integers, Sequences, FiniteSets, TLC

VARIABLES
    active_jobs,   \* BatchBackend.active_jobs: job_id -> job record
    issued,        \* the job ids uuid4 has produced or a caller has used so far
    call,          \* the process_batch invocation: its locals and its position
    ncalls,        \* how many process_batch invocations were started
    ret,           \* what the create_job, get_job_status or create_export_zip
                   \* call of the last step handed to its caller
    input,         \* the arguments of the pure function under study
    output         \* what that function returned

vars == <<active_jobs, issued, call, ncalls, ret, input, output>>

jobvars == <<active_jobs, issued, call, ncalls, ret>>

(***************************************************************************)
(* Generic helpers.                                                        *)
(***************************************************************************)
Min(a, b) == IF a <= b THEN a ELSE b

Max(a, b) == IF a >= b THEN a ELSE b

\* dict.get(k, default)
Get(d, k, default) == IF k \in DOMAIN d THEN d[k] ELSE default

RECURSIVE SumSeq(_)
SumSeq(s) == IF s = <<>> THEN 0 ELSE Head(s) + SumSeq(Tail(s))

\* np.sum(arr == v) over a 2-D array kept as a sequence of rows
CountEq(arr, v) ==
    SumSeq([r \in DOMAIN arr |->
              Cardinality({c \in DOMAIN arr[r] : arr[r][c] = v})])

Height(arr) == Len(arr)

Width(arr) == IF Len(arr) = 0 THEN 0 ELSE Len(arr[1])

(***************************************************************************)
(* ColorSpaceConverter: rgb_to_lab, tabulated on the palette.              *)
(***************************************************************************)
Black == <<0, 0, 0>>
Gray == <<128, 128, 128>>
White == <<255, 255, 255>>
Red == <<255, 0, 0>>
Olive == <<120, 90, 30>>

Palette == {Black, Gray, White, Red, Olive}

\* floor of (L, a, b) as rgb_to_lab computes them
rgb_to_lab_floor(rgb) ==
    CASE rgb = Black -> <<0, 0, 0>>
      [] rgb = Gray  -> <<53, -1, 0>>
      [] rgb = White -> <<100, -1, 0>>
      [] rgb = Red   -> <<53, 80, 67>>
      [] rgb = Olive -> <<40, 5, 37>>

\* ceiling of (L, a, b) as rgb_to_lab computes them
rgb_to_lab_ceil(rgb) ==
    CASE rgb = Black -> <<0, 0, 0>>
      [] rgb = Gray  -> <<54, 0, 1>>
      [] rgb = White -> <<101, 0, 1>>
      [] rgb = Red   -> <<54, 81, 68>>
      [] rgb = Olive -> <<41, 6, 38>>

\* lo <= v <= hi for the real v with the given floor and ceiling, lo and hi integers
InRange(lo, vfloor, vceil, hi) == lo <= vfloor /\ vceil <= hi

\* lines 137-148: the LAB test of one pixel against one phase's labRanges
LabMatch(rgb, lab_ranges) ==
    LET lo == rgb_to_lab_floor(rgb)
        hi == rgb_to_lab_ceil(rgb)
        L_range == Get(lab_ranges, "L", <<>>)
        a_range == Get(lab_ranges, "a", <<>>)
        b_range == Get(lab_ranges, "b", <<>>)
    IN  /\ InRange(Get(L_range, "min", -100), lo[1], hi[1], Get(L_range, "max", 100))
        /\ InRange(Get(a_range, "min", -128), lo[2], hi[2], Get(a_range, "max", 128))
        /\ InRange(Get(b_range, "min", -128), lo[3], hi[3], Get(b_range, "max", 128))

(***************************************************************************)
(* ZoneClassifier.  A feature pixel is [b3 |-> 3 * brightness, c |->       *)
(* contrast]; a polygon is a sequence of [brightness, contrast] vertices.  *)
(***************************************************************************)
\* the vertex polygon[i % n] of Python's 0-based list
Vertex(polygon, i) == polygon[(i % Len(polygon)) + 1]

\* x <= (y - p1_y) * (p2_x - p1_x) / (p2_y - p1_y) + p1_x, for p1_y # p2_y
LeqXInters(px, p1, p2) ==
    LET dy == p2.contrast - p1.contrast
        rhs == 3 * (px.c - p1.contrast) * (p2.brightness - p1.brightness)
                 + 3 * p1.brightness * dy
    IN  IF dy > 0 THEN px.b3 * dy <= rhs ELSE px.b3 * dy >= rhs

\* lines 187-193: does edge (p1, p2) toggle the scalar test's inside flag
ScalarCrosses(px, p1, p2) ==
    /\ px.c > Min(p1.contrast, p2.contrast)
    /\ px.c <= Max(p1.contrast, p2.contrast)
    /\ px.b3 <= 3 * Max(p1.brightness, p2.brightness)
    /\ \/ p1.brightness = p2.brightness
       \/ LeqXInters(px, p1, p2)

RECURSIVE ScalarEdges(_, _, _, _)
ScalarEdges(px, polygon, i, inside) ==
    IF i > Len(polygon) THEN inside
    ELSE ScalarEdges(px, polygon, i + 1,
            IF ScalarCrosses(px, Vertex(polygon, i - 1), Vertex(polygon, i))
            THEN ~inside ELSE inside)

\* point_in_polygon(x, y, polygon), the scalar reference
point_in_polygon(px, polygon) == ScalarEdges(px, polygon, 1, FALSE)

\* lines 227-236 with a wrong lower comparison (>= for >)
VectorCrossesMutant(px, p1, p2) ==
    LET y_in_range == /\ px.c >= Min(p1.contrast, p2.contrast)
                      /\ px.c <= Max(p1.contrast, p2.contrast)
    IN  IF p1.contrast # p2.contrast
        THEN y_in_range /\ LeqXInters(px, p1, p2)
        ELSE y_in_range /\ px.b3 <= 3 * Max(p1.brightness, p2.brightness)

\* lines 227-236: the pixels edge (p1, p2) toggles, for one pixel of the raster
VectorCrosses(px, p1, p2) ==
    LET y_in_range == /\ px.c > Min(p1.contrast, p2.contrast)
                      /\ px.c <= Max(p1.contrast, p2.contrast)
    IN  IF p1.contrast # p2.contrast
        THEN y_in_range /\ LeqXInters(px, p1, p2)
        ELSE y_in_range /\ px.b3 <= 3 * Max(p1.brightness, p2.brightness)

RECURSIVE VectorEdges(_, _, _, _)
VectorEdges(feat, polygon, i, inside) ==
    IF i >= Len(polygon) THEN inside
    ELSE VectorEdges(feat, polygon, i + 1,
            [r \in DOMAIN feat |-> [c \in DOMAIN feat[r] |->
                inside[r][c] # VectorCrosses(feat[r][c], Vertex(polygon, i),
                                             Vertex(polygon, i + 1))]])

\* vectorized_point_in_polygon(brightness_img, contrast_img, polygon)
vectorized_point_in_polygon(feat, polygon) ==
    VectorEdges(feat, polygon, 0,
                [r \in DOMAIN feat |-> [c \in DOMAIN feat[r] |-> FALSE]])

(***************************************************************************)
(* ClassificationEngine.  An image is a sequence of rows of RGB triples; a *)
(* classification is a record that may hold "phases", the sequence of the *)
(* phases in declaration order (the dict's insertion order); a phase is    *)
(* [id, name, labRanges, bcZone] with labRanges = <<>> when absent or      *)
(* empty and <<ranges>> otherwise, and bcZone a sequence of vertices.      *)
(***************************************************************************)
\* classification.get("phases", {})
PhasesOf(classification) == Get(classification, "phases", <<>>)

\* the ids of the configured phases, int(phase_id)
PhaseIds(classification) ==
    {PhasesOf(classification)[i].id : i \in DOMAIN PhasesOf(classification)}

\* a value stored into the np.uint8 raster
ToUint8(v) == v % 256

HasLab(phase_data) == phase_data.labRanges # <<>>

HasZone(phase_data) == Len(phase_data.bcZone) > 0

\* lines 113-114: brightness (as the channel sum) and contrast of every pixel
Features(image) ==
    [r \in DOMAIN image |-> [c \in DOMAIN image[r] |->
        LET p == image[r][c]
        IN  [b3 |-> p[1] + p[2] + p[3],
             c  |-> Max(p[1], Max(p[2], p[3])) - Min(p[1], Min(p[2], p[3]))]]]

\* lines 130-149 without the "already classified" test of line 134
LabPassMutant(image, classified, phase_data) ==
    [r \in DOMAIN image |-> [c \in DOMAIN image[r] |->
        IF LabMatch(image[r][c], phase_data.labRanges[1])
        THEN ToUint8(phase_data.id)
        ELSE classified[r][c]]]

\* lines 130-149: the LAB pass of one phase over the raster
LabPass(image, classified, phase_data) ==
    [r \in DOMAIN image |-> [c \in DOMAIN image[r] |->
        IF classified[r][c] # 0 THEN classified[r][c]
        ELSE IF LabMatch(image[r][c], phase_data.labRanges[1])
             THEN ToUint8(phase_data.id)
             ELSE classified[r][c]]]

\* lines 156-159: the zone pass of one phase over the raster
ZonePass(image, classified, phase_data) ==
    LET mask == vectorized_point_in_polygon(Features(image), phase_data.bcZone)
    IN  [r \in DOMAIN image |-> [c \in DOMAIN image[r] |->
            IF mask[r][c] /\ classified[r][c] = 0
            THEN ToUint8(phase_data.id)
            ELSE classified[r][c]]]

\* lines 125-161: one iteration of the loop over the phases
ClassifyPhase(image, classified, phase_data) ==
    LET after_lab == IF HasLab(phase_data)
                     THEN LabPass(image, classified, phase_data)
                     ELSE classified
    IN  IF HasZone(phase_data)
        THEN ZonePass(image, after_lab, phase_data)
        ELSE after_lab

RECURSIVE ClassifyPhases(_, _, _, _)
ClassifyPhases(image, phases, i, classified) ==
    IF i > Len(phases) THEN classified
    ELSE ClassifyPhases(image, phases, i + 1,
                        ClassifyPhase(image, classified, phases[i]))

NoMethodMessage == "No classification method available (neither LAB nor B/C)"

\* classify_image(image, classification): the raster, or the ValueError of line 107
classify_image(image, classification) ==
    LET phases  == PhasesOf(classification)
        use_lab == \E i \in DOMAIN phases : HasLab(phases[i])
        use_bc  == \E i \in DOMAIN phases : HasZone(phases[i])
    IN  IF ~use_lab /\ ~use_bc
        THEN [raised |-> TRUE, error |-> NoMethodMessage]
        ELSE [raised |-> FALSE,
              classified |->
                ClassifyPhases(image, phases, 1,
                    [r \in DOMAIN image |-> [c \in DOMAIN image[r] |-> 0]])]

(***************************************************************************)
(* AggregationEngine.                                                      *)
(***************************************************************************)
\* (count / total_pixels) * 100.0
Percent(count, total_pixels) == [num |-> 100 * count, den |-> total_pixels]

\* lines 259-265 with the unclassified count of line 264 left at zero
AreaFractionsMutant(classified, classification) ==
    LET total_pixels == Height(classified) * Width(classified)
    IN  [id \in PhaseIds(classification) \cup {0} |->
            IF id = 0 THEN Percent(0, total_pixels)
            ELSE Percent(CountEq(classified, id), total_pixels)]

\* calculate_areal_fractions(classified, classification): phase id -> percentage,
\* the key 0 being the unclassified bucket "0"
calculate_areal_fractions(classified, classification) ==
    LET total_pixels == Height(classified) * Width(classified)
    IN  [id \in PhaseIds(classification) \cup {0} |->
            Percent(CountEq(classified, id), total_pixels)]

\* The cases, for width <= 16 and bins <= 16, in which the float product
\* i * (width / bins) falls just below the integer it equals exactly, so that
\* int() yields one less than floor(i * width / bins): <<bins, width, i>>.
FloatShort == {<<11, 15, 11>>, <<13, 15, 13>>}

\* int(i * bin_width) with bin_width = width / bins, lines 289 and 296-297
TruncProduct(i, width, bins) ==
    ((i * width) \div bins) - (IF <<bins, width, i>> \in FloatShort THEN 1 ELSE 0)

\* classified[:, x_start:x_end]
ColumnSlice(classified, x_start, x_end) ==
    [r \in DOMAIN classified |->
        [c \in 1..Max(0, Min(x_end, Width(classified)) - x_start) |->
            classified[r][x_start + c]]]

\* line 288 without the min: one bin per requested bin
ActualBinsMutant(num_bins, width) == num_bins

\* line 288
ActualBins(num_bins, width) == Min(num_bins, width)

\* lines 295-322: the entry of bin bin_idx (0-based)
XBin(classified, classification, x0, x1, width, actual_bins, bin_idx) ==
    LET x_start == TruncProduct(bin_idx, width, actual_bins)
        x_end == TruncProduct(bin_idx + 1, width, actual_bins)
        slice_data == ColumnSlice(classified, x_start, x_end)
        total_pixels == Height(slice_data) * Width(slice_data)
    IN  [physical_x |-> [num |-> 2 * width * x0 + (x_start + x_end) * (x1 - x0),
                         den |-> 2 * width],
         fractions |->
            [id \in PhaseIds(classification) \cup {0} |->
                IF total_pixels = 0 THEN Percent(0, 1)
                ELSE Percent(CountEq(slice_data, id), total_pixels)]]

\* calculate_x_distribution(classified, classification, x0, x1, width, num_bins)
calculate_x_distribution(classified, classification, x0, x1, width, num_bins) ==
    LET actual_bins == ActualBins(num_bins, width)
        bins == [k \in 1..actual_bins |->
                    XBin(classified, classification, x0, x1, width, actual_bins, k - 1)]
    IN  [xPositions |-> [k \in 1..actual_bins |-> bins[k].physical_x],
         phaseFractions |->
            [id \in PhaseIds(classification) \cup {0} |->
                [k \in 1..actual_bins |-> bins[k].fractions[id]]]]

(***************************************************************************)
(* Results.  An image_data is [name, x0, y0, x1, y1, file]; file is        *)
(* [decodable |-> TRUE, pixels |-> image] or [decodable |-> FALSE] (bytes   *)
(* PIL cannot open).                                                       *)
(***************************************************************************)
\* num_bins = 50, the default process_single_image relies on
DefaultNumBins == 50

MissingPhasesMessage == "Invalid classification: missing 'phases'"

NoPhasesMessage == "Classification has no phases defined"

NoRulesMessage == "No phases have classification data. Each phase must have either LAB ranges or B/C zone defined."

DecodeMessage == "cannot identify image file"

\* lines 411-441 left out: every classification passes
ValidateClassificationMutant(classification) == <<>>

\* lines 411-441: <<>> when the classification passes, <<message>> when it raises
ValidateClassification(classification) ==
    IF "phases" \notin DOMAIN classification THEN <<MissingPhasesMessage>>
    ELSE IF Len(classification.phases) = 0 THEN <<NoPhasesMessage>>
    ELSE IF ~\E i \in DOMAIN classification.phases :
                HasLab(classification.phases[i]) \/ HasZone(classification.phases[i])
         THEN <<NoRulesMessage>>
         ELSE <<>>

\* the keys of a Result that start with "_"
UnderscoreKeys == {"_full_original", "_full_overlay", "_full_classified"}

\* line 594: {k: v for k, v in result.items() if not k.startswith("_")}
ClientResult(result) == [k \in DOMAIN result \ UnderscoreKeys |-> result[k]]

\* lines 497-542: the Result of a decoded and classified image
MakeResult(image_data, image, classified, classification) ==
    LET width == Width(image)
        height == Height(image)
        x0 == image_data.x0
        y0 == image_data.y0
        x1 == image_data.x1
        y1 == image_data.y1
        physical_width == IF x1 >= x0 THEN x1 - x0 ELSE x0 - x1
        physical_height == IF y1 >= y0 THEN y1 - y0 ELSE y0 - y1
    IN  [name |-> image_data.name,
         metadata |->
            [name |-> image_data.name, width |-> width, height |-> height,
             x0 |-> x0, y0 |-> y0, x1 |-> x1, y1 |-> y1,
             x_center |-> [num |-> x0 + x1, den |-> 2],
             y_center |-> [num |-> y0 + y1, den |-> 2],
             physicalWidth |-> physical_width,
             physicalHeight |-> physical_height,
             xScale |-> IF physical_width > 0
                        THEN [num |-> width, den |-> physical_width]
                        ELSE [num |-> 1, den |-> 1],
             yScale |-> IF physical_height > 0
                        THEN [num |-> height, den |-> physical_height]
                        ELSE [num |-> 1, den |-> 1]],
         arealFractions |-> calculate_areal_fractions(classified, classification),
         xDistribution |->
            calculate_x_distribution(classified, classification, x0, x1, width,
                                     DefaultNumBins),
         previews |-> [original |-> "preview of original",
                       overlay |-> "preview of overlay"],
         _full_original |-> image,
         _full_overlay |-> [original |-> image, classified |-> classified],
         _full_classified |-> classified]

\* lines 454-542: decode, classify, aggregate; the Result or the exception
ProcessDecoded(image_data, classification) ==
    IF ~image_data.file.decodable
    THEN [raised |-> TRUE, error |-> DecodeMessage]
    ELSE LET image == image_data.file.pixels
             got == classify_image(image, classification)
         IN  IF got.raised THEN got
             ELSE [raised |-> FALSE,
                   result |-> MakeResult(image_data, image, got.classified,
                                         classification)]

(***************************************************************************)
(* ExportPackager.                                                         *)
(***************************************************************************)
\* a < b for the fractions a and b (positive denominators)
FracLess(a, b) == a.num * b.den < b.num * a.den

\* insert r after the entries whose key is <= r's: one step of a stable sort
RECURSIVE InsertByXCenter(_, _)
InsertByXCenter(sorted, r) ==
    IF sorted = <<>> THEN <<r>>
    ELSE IF FracLess(r.metadata.x_center, Head(sorted).metadata.x_center)
         THEN <<r>> \o sorted
         ELSE <<Head(sorted)>> \o InsertByXCenter(Tail(sorted), r)

\* line 704 without the sort: the results in submission order
SortByXCenterMutant(results) == results

\* line 704: sorted(results, key=lambda r: r["metadata"]["x_center"])
RECURSIVE SortByXCenter(_)
SortByXCenter(results) ==
    IF results = <<>> THEN <<>>
    ELSE InsertByXCenter(SortByXCenter(SubSeq(results, 1, Len(results) - 1)),
                         results[Len(results)])

\* line 678 with the order reversed: the ids in descending order
RECURSIVE SortedIdsMutant(_)
SortedIdsMutant(ids) ==
    IF ids = {} THEN <<>>
    ELSE LET m == CHOOSE x \in ids : \A y \in ids : x >= y
         IN  <<m>> \o SortedIdsMutant(ids \ {m})

\* line 678: sorted(phases.keys(), key=int), as the sequence of the ids
RECURSIVE SortedIds(_)
SortedIds(ids) ==
    IF ids = {} THEN <<>>
    ELSE LET m == CHOOSE x \in ids : \A y \in ids : x <= y
         IN  <<m>> \o SortedIds(ids \ {m})

\* f"{v:.2f}" of a percentage: the number of hundredths, rounded to nearest
Format2(frac) == (2 * 100 * frac.num + frac.den) \div (2 * frac.den)

\* f"{v:.4f}" of a coordinate k / den: the number of ten-thousandths
Format4(frac) == (2 * 10000 * frac.num + frac.den) \div (2 * frac.den)

\* fractions.get(phase_id, 0.0)
FractionOf(fractions, id) == IF id \in DOMAIN fractions THEN fractions[id] ELSE Percent(0, 1)

\* _create_csv_data(results, classification): the header's phase columns and the rows
create_csv_data(results, classification) ==
    LET phases == PhasesOf(classification)
        phase_ids == SortedIds(PhaseIds(classification))
        NameOf(id) == phases[CHOOSE i \in DOMAIN phases : phases[i].id = id].name
        sorted_results == SortByXCenter(results)
    IN  [header |-> [k \in DOMAIN phase_ids |-> NameOf(phase_ids[k])],
         rows |->
            [k \in DOMAIN sorted_results |->
                LET meta == sorted_results[k].metadata
                    fractions == sorted_results[k].arealFractions
                IN  [Image |-> meta.name,
                     X_Center |-> Format4(meta.x_center),
                     Y_Center |-> Format4(meta.y_center),
                     X0 |-> Format4([num |-> meta.x0, den |-> 1]),
                     Y0 |-> Format4([num |-> meta.y0, den |-> 1]),
                     X1 |-> Format4([num |-> meta.x1, den |-> 1]),
                     Y1 |-> Format4([num |-> meta.y1, den |-> 1]),
                     Width_px |-> meta.width,
                     Height_px |-> meta.height,
                     Physical_Width |-> Format4([num |-> meta.physicalWidth, den |-> 1]),
                     Physical_Height |-> Format4([num |-> meta.physicalHeight, den |-> 1]),
                     phase_columns |->
                        [c \in DOMAIN phase_ids |->
                            Format2(FractionOf(fractions, phase_ids[c]))],
                     Unclassified |-> Format2(FractionOf(fractions, 0))]]]

ExportErrorMessage == "Job not found or not completed"

\* lines 625-627 with the status test dropped: any registered job is exported
ExportPermittedMutant(jobs, job_id) == job_id \in DOMAIN jobs

\* lines 625-627: job = self.active_jobs.get(job_id); job and job["status"] == "completed"
ExportPermitted(jobs, job_id) ==
    job_id \in DOMAIN jobs /\ jobs[job_id].status = "completed"

\* lines 648-655 with the overlays written under originals/ as well
EntryNamesMutant(results) ==
    <<"batch_results.csv">>
        \o [k \in DOMAIN results |-> "originals/" \o results[k].name]
        \o [k \in DOMAIN results |-> "originals/" \o results[k].name]
        \o <<"metadata.json">>

\* lines 637-668: the names of the archive's entries, in the order of the writes
EntryNames(results) ==
    <<"batch_results.csv">>
        \o [k \in DOMAIN results |-> "originals/" \o results[k].name]
        \o [k \in DOMAIN results |-> "classified/" \o results[k].name]
        \o <<"metadata.json">>

\* lines 629-670: the archive of the results, entry by entry
MakeArchive(job_id, results, classification) ==
    [namelist |-> EntryNames(results),
     csv |-> create_csv_data(results, classification),
     originals |-> [k \in DOMAIN results |->
                      [name |-> results[k].name, image |-> results[k]._full_original]],
     classified |-> [k \in DOMAIN results |->
                      [name |-> results[k].name, image |-> results[k]._full_overlay]],
     metadata |->
        [job_id |-> job_id,
         num_images |-> Len(results),
         classification |-> classification,
         results |-> [k \in DOMAIN results |->
                        [name |-> results[k].name,
                         metadata |-> results[k].metadata,
                         arealFractions |-> results[k].arealFractions]]]]

\* create_export_zip(job_id, classification): the archive, or the ValueError
create_export_zip(jobs, job_id, classification) ==
    IF ~ExportPermitted(jobs, job_id)
    THEN [raised |-> TRUE, error |-> ExportErrorMessage]
    ELSE [raised |-> FALSE,
          archive |-> MakeArchive(job_id, jobs[job_id].results, classification)]

(***************************************************************************)
(* JobManager: the inputs the job model draws from.                        *)
(***************************************************************************)
\* how many job ids exist
NumJobs == 2

\* the longest batch
MaxBatch == 2

\* how many process_batch invocations a run starts
MaxCalls == 2

JobIds == {"job" \o ToString(n) : n \in 1..NumJobs}

DarkRange == [L |-> [min |-> 0, max |-> 50]]

ColourZone ==
    << [brightness |-> 0, contrast |-> 60], [brightness |-> 255, contrast |-> 60],
       [brightness |-> 255, contrast |-> 255], [brightness |-> 0, contrast |-> 255] >>

\* a dark phase by LAB range, then a saturated phase by zone
CfgValid ==
    [phases |-> << [id |-> 2, name |-> "dark", labRanges |-> <<DarkRange>>, bcZone |-> <<>>],
                   [id |-> 1, name |-> "colour", labRanges |-> <<>>, bcZone |-> ColourZone] >>]

CfgNoPhases == [phases |-> <<>>]

CfgNoRules ==
    [phases |-> << [id |-> 1, name |-> "bare", labRanges |-> <<>>, bcZone |-> <<>>] >>]

JobConfigs == {CfgValid, CfgNoPhases, CfgNoRules}

\* the classifications an export is asked with
ExportConfigs == {CfgValid, CfgNoPhases}

ImgA ==
    [name |-> "a.png", x0 |-> 4, y0 |-> 0, x1 |-> 6, y1 |-> 1,
     file |-> [decodable |-> TRUE, pixels |-> << <<Black, Red>> >>]]

ImgB ==
    [name |-> "b.png", x0 |-> 0, y0 |-> 0, x1 |-> 2, y1 |-> 1,
     file |-> [decodable |-> TRUE, pixels |-> << <<White, Olive>> >>]]

ImgCorrupt ==
    [name |-> "c.png", x0 |-> 2, y0 |-> 0, x1 |-> 4, y1 |-> 1,
     file |-> [decodable |-> FALSE]]

JobImages == {ImgA, ImgB, ImgCorrupt}

Batches == UNION {[1..n -> JobImages] : n \in 0..MaxBatch}

(***************************************************************************)
(* JobManager: the registry and the steps of process_batch.                *)
(*                                                                         *)
(* One batch is in flight at a time (the single coordinating owner of the  *)
(* job record); create_job, get_job_status, create_export_zip and          *)
(* cleanup_job run between any two statements of process_batch that touch  *)
(* the registry.                                                           *)
(***************************************************************************)
\* lines 547-553 with the job registered as already processing
NewJobMutant(job_id) ==
    [id |-> job_id,
     status |-> "processing",
     progress |-> [current |-> 0, total |-> 0, status |-> "Initializing..."],
     results |-> <<>>,
     error |-> <<>>]

\* lines 547-553 and 576-582: the record of a new job (created_at left out)
NewJob(job_id) ==
    [id |-> job_id,
     status |-> "pending",
     progress |-> [current |-> 0, total |-> 0, status |-> "Initializing..."],
     results |-> <<>>,
     error |-> <<>>]

\* self.active_jobs[job_id] = job
Put(jobs, job_id, job) ==
    [j \in DOMAIN jobs \cup {job_id} |-> IF j = job_id THEN job ELSE jobs[j]]

\* del self.active_jobs[job_id]
Remove(jobs, job_id) == [j \in DOMAIN jobs \ {job_id} |-> jobs[j]]

\* str(KeyError(job_id))
KeyErrorMessage(job_id) == "'" \o job_id \o "'"

NoReturn == [op |-> "none"]

IdleCall == [pc |-> "idle"]

\* an invocation of process_batch is between its entry and its return or raise
InFlight == call.pc \notin {"idle", "returned", "raised"}

\* the invocation goes to its except clause with the exception e, whose
\* traceback holds the statement that raised it
Raise(message) ==
    [call EXCEPT !.pc = "except", !.exc = <<message>>, !.raised_at = call.pc]

\* the job of the invocation is not in the registry: the KeyError of a subscript
Missing == call.job_id \notin DOMAIN active_jobs

\* the invocation becomes c and the registry becomes jobs
Step(c, jobs) ==
    /\ call' = c
    /\ active_jobs' = jobs
    /\ ret' = NoReturn
    /\ UNCHANGED <<issued, ncalls, input, output>>

Init ==
    /\ active_jobs = <<>>
    /\ issued = {}
    /\ call = IdleCall
    /\ ncalls = 0
    /\ ret = NoReturn
    /\ input = [fn |-> "none"]
    /\ output = [fn |-> "none"]

\* create_job()
CreateJob ==
    /\ \E job_id \in JobIds \ issued :
        /\ active_jobs' = Put(active_jobs, job_id, NewJob(job_id))
        /\ issued' = issued \cup {job_id}
        /\ ret' = [op |-> "create_job", job_id |-> job_id, value |-> job_id]
    /\ UNCHANGED <<call, ncalls, input, output>>

\* line 558: self.active_jobs.get(job_id, {"status": "not_found"})
JobStatus(jobs, job_id) ==
    IF job_id \in DOMAIN jobs THEN jobs[job_id] ELSE [status |-> "not_found"]

\* line 558 with setdefault for get: an unknown id is given a record
GetJobStatusMutant ==
    /\ \E job_id \in JobIds :
        /\ ret' = [op |-> "get_job_status", job_id |-> job_id,
                   value |-> JobStatus(active_jobs, job_id)]
        /\ active_jobs' = IF job_id \in DOMAIN active_jobs THEN active_jobs
                          ELSE Put(active_jobs, job_id, [status |-> "not_found"])
    /\ UNCHANGED <<issued, call, ncalls, input, output>>

\* get_job_status(job_id)
GetJobStatus ==
    /\ \E job_id \in JobIds :
        ret' = [op |-> "get_job_status", job_id |-> job_id,
                value |-> JobStatus(active_jobs, job_id)]
    /\ UNCHANGED <<active_jobs, issued, call, ncalls, input, output>>

\* create_export_zip(job_id, classification)
CreateExportZip ==
    /\ \E job_id \in JobIds, classification \in ExportConfigs :
        ret' = [op |-> "create_export_zip", job_id |-> job_id,
                classification |-> classification,
                value |-> create_export_zip(active_jobs, job_id, classification)]
    /\ UNCHANGED <<active_jobs, issued, call, ncalls, input, output>>

\* cleanup_job(job_id)
CleanupJob ==
    /\ \E job_id \in JobIds :
        active_jobs' = IF job_id \in DOMAIN active_jobs
                       THEN Remove(active_jobs, job_id)
                       ELSE active_jobs
    /\ ret' = NoReturn
    /\ UNCHANGED <<issued, call, ncalls, input, output>>

\* lines 572-582 without lines 574-582: an unknown job id is not registered
ProcessBatchEnterMutant ==
    /\ ~InFlight
    /\ ncalls < MaxCalls
    /\ \E job_id \in JobIds, images_data \in Batches, classification \in JobConfigs :
        /\ call' = [pc |-> "L584",
                    job_id |-> job_id,
                    images_data |-> images_data,
                    classification |-> classification,
                    i |-> 0,
                    results |-> <<>>,
                    results_for_client |-> <<>>,
                    exc |-> <<>>,
                    raised_at |-> "",
                    returned |-> <<>>,
                    entry |-> IF job_id \notin DOMAIN active_jobs THEN "recreated"
                              ELSE IF active_jobs[job_id] = NewJob(job_id)
                                   THEN "created" ELSE "reused"]
        /\ issued' = issued \cup {job_id}
    /\ ncalls' = ncalls + 1
    /\ ret' = NoReturn
    /\ UNCHANGED <<active_jobs, input, output>>

\* process_batch(job_id, images_data, classification) is entered: lines 572-582
ProcessBatchEnter ==
    /\ ~InFlight
    /\ ncalls < MaxCalls
    /\ \E job_id \in JobIds, images_data \in Batches, classification \in JobConfigs :
        LET existed == job_id \in DOMAIN active_jobs
        IN  /\ call' = [pc |-> "L584",
                        job_id |-> job_id,
                        images_data |-> images_data,
                        classification |-> classification,
                        i |-> 0,
                        results |-> <<>>,
                        results_for_client |-> <<>>,
                        exc |-> <<>>,
                        raised_at |-> "",
                        returned |-> <<>>,
                        entry |-> IF ~existed THEN "recreated"
                                  ELSE IF active_jobs[job_id] = NewJob(job_id)
                                       THEN "created" ELSE "reused"]
            /\ active_jobs' = IF existed THEN active_jobs
                              ELSE Put(active_jobs, job_id, NewJob(job_id))
            /\ issued' = issued \cup {job_id}
    /\ ncalls' = ncalls + 1
    /\ ret' = NoReturn
    /\ UNCHANGED <<input, output>>

\* where the loop of line 589 goes once i images are done
LoopHead(i) == IF i < Len(call.images_data) THEN "L409" ELSE "L597"

\* lines 447-452 with current one short (index for index + 1)
ProgressOfMutant(i) ==
    [current |-> i,
     total |-> Len(call.images_data),
     status |-> "Processing " \o call.images_data[i + 1].name \o "..."]

\* lines 447-452: the progress of image i (0-based)
ProgressOf(i) ==
    [current |-> i + 1,
     total |-> Len(call.images_data),
     status |-> "Processing " \o call.images_data[i + 1].name \o "..."]

\* line 584: self.active_jobs[job_id]["status"] = "processing"
SetProcessing ==
    /\ call.pc = "L584"
    /\ IF Missing
       THEN Step(Raise(KeyErrorMessage(call.job_id)), active_jobs)
       ELSE Step([call EXCEPT !.pc = "L585"],
                 [active_jobs EXCEPT ![call.job_id].status = "processing"])

\* line 585: self.active_jobs[job_id]["progress"]["total"] = len(images_data)
SetTotal ==
    /\ call.pc = "L585"
    /\ IF Missing
       THEN Step(Raise(KeyErrorMessage(call.job_id)), active_jobs)
       ELSE Step([call EXCEPT !.pc = LoopHead(0)],
                 [active_jobs EXCEPT ![call.job_id].progress.total =
                                        Len(call.images_data)])

\* process_single_image, lines 409-452: validate the classification, then
\* write the progress of image i
StartImage ==
    /\ call.pc = "L409"
    /\ LET invalid == ValidateClassification(call.classification)
       IN  IF invalid # <<>>
           THEN Step(Raise(invalid[1]), active_jobs)
           ELSE IF Missing
                THEN Step(Raise(KeyErrorMessage(call.job_id)), active_jobs)
                ELSE Step([call EXCEPT !.pc = "L454"],
                          [active_jobs EXCEPT ![call.job_id].progress =
                                                 ProgressOf(call.i)])

\* process_single_image, lines 454-542, and lines 591-595: the image is decoded,
\* classified and aggregated, and its Result appended to the two local lists
FinishImage ==
    /\ call.pc = "L454"
    /\ LET got == ProcessDecoded(call.images_data[call.i + 1], call.classification)
       IN  IF got.raised
           THEN Step(Raise(got.error), active_jobs)
           ELSE Step([call EXCEPT
                         !.pc = LoopHead(call.i + 1),
                         !.i = call.i + 1,
                         !.results = Append(call.results, got.result),
                         !.results_for_client =
                             Append(call.results_for_client, ClientResult(got.result))],
                     active_jobs)

\* line 597: self.active_jobs[job_id]["status"] = "completed"
SetCompleted ==
    /\ call.pc = "L597"
    /\ IF Missing
       THEN Step(Raise(KeyErrorMessage(call.job_id)), active_jobs)
       ELSE Step([call EXCEPT !.pc = "L598"],
                 [active_jobs EXCEPT ![call.job_id].status = "completed"])

\* line 598: self.active_jobs[job_id]["results"] = results
StoreResults ==
    /\ call.pc = "L598"
    /\ IF Missing
       THEN Step(Raise(KeyErrorMessage(call.job_id)), active_jobs)
       ELSE Step([call EXCEPT !.pc = "L599"],
                 [active_jobs EXCEPT ![call.job_id].results = call.results])

\* lines 599-601: the progress text, and the return of the client-safe results
Return ==
    /\ call.pc = "L599"
    /\ IF Missing
       THEN Step(Raise(KeyErrorMessage(call.job_id)), active_jobs)
       ELSE Step([call EXCEPT
                     !.pc = "returned",
                     !.returned = << [status |-> "success",
                                      job_id |-> call.job_id,
                                      results |-> call.results_for_client] >>],
                 [active_jobs EXCEPT ![call.job_id].progress.status = "Complete!"])

\* lines 603-612 without line 607: the message is not recorded
HandleExceptionMutant ==
    /\ call.pc = "except"
    /\ Step([call EXCEPT !.pc = "raised"],
            IF Missing THEN active_jobs
            ELSE [active_jobs EXCEPT ![call.job_id].status = "failed"])

\* lines 603-612: the except clause marks the job failed, if it is registered,
\* and raises the exception again
HandleException ==
    /\ call.pc = "except"
    /\ Step([call EXCEPT !.pc = "raised"],
            IF Missing THEN active_jobs
            ELSE [active_jobs EXCEPT ![call.job_id].status = "failed",
                                     ![call.job_id].error = call.exc])

Next ==
    \/ CreateJob
    \/ GetJobStatus
    \/ CreateExportZip
    \/ CleanupJob
    \/ ProcessBatchEnter
    \/ SetProcessing
    \/ SetTotal
    \/ StartImage
    \/ FinishImage
    \/ SetCompleted
    \/ StoreResults
    \/ Return
    \/ HandleException

Spec == Init /\ [][Next]_vars

(***************************************************************************)
(* The pure functions, each applied to inputs drawn from bounded sets.     *)
(* The registry stays as constructed.                                      *)
(***************************************************************************)
\* the largest brightness and contrast of a polygon vertex
MaxCoord == 2

\* the most vertices of a polygon
MaxVerts == 4

\* the most phases of a classification
MaxPhases == 2

\* the widest image given to classify_image
MaxPixels == 2

\* the widest raster given to the aggregation
MaxWidth == 3

\* the most bins asked of calculate_x_distribution
MaxBins == 4

JobsUntouched ==
    /\ active_jobs = <<>>
    /\ issued = {}
    /\ call = IdleCall
    /\ ncalls = 0
    /\ ret = NoReturn

(***************************************************************************)
(* ZoneClassifier: the vectorized test against the scalar one.             *)
(***************************************************************************)
Vertices == [brightness : 0..MaxCoord, contrast : 0..MaxCoord]

Polygons == UNION {[1..n -> Vertices] : n \in 3..MaxVerts}

\* a feature raster holding every (brightness, contrast) value up to MaxCoord,
\* brightness in thirds: row c + 1, column b3 + 1
TestChart ==
    [r \in 1..(MaxCoord + 1) |-> [k \in 1..(3 * MaxCoord + 1) |->
        [b3 |-> k - 1, c |-> r - 1]]]

InitZone ==
    /\ JobsUntouched
    /\ \E polygon \in Polygons :
        input = [fn |-> "point_in_polygon", polygon |-> polygon, feat |-> TestChart]
    /\ output = [mask |-> <<>>, reference |-> <<>>]

\* vectorized_point_in_polygon over the raster
RunVectorized ==
    /\ input.fn = "point_in_polygon"
    /\ output.mask = <<>>
    /\ output' = [output EXCEPT
                    !.mask = <<vectorized_point_in_polygon(input.feat, input.polygon)>>]
    /\ UNCHANGED <<jobvars, input>>

\* point_in_polygon, pixel by pixel
RunScalar ==
    /\ input.fn = "point_in_polygon"
    /\ output.reference = <<>>
    /\ output' = [output EXCEPT
                    !.reference =
                        << [r \in DOMAIN input.feat |-> [k \in DOMAIN input.feat[r] |->
                              point_in_polygon(input.feat[r][k], input.polygon)]] >>]
    /\ UNCHANGED <<jobvars, input>>

NextZone == RunVectorized \/ RunScalar

SpecZone == InitZone /\ [][NextZone]_vars

(***************************************************************************)
(* ClassificationEngine: classify_image on small images.                   *)
(***************************************************************************)
AnyRange == [L |-> [min |-> 0]]

GrayZone ==
    << [brightness |-> 100, contrast |-> -1], [brightness |-> 255, contrast |-> -1],
       [brightness |-> 255, contrast |-> 100], [brightness |-> 100, contrast |-> 100] >>

DegenerateZone ==
    << [brightness |-> 0, contrast |-> 0], [brightness |-> 255, contrast |-> 255] >>

LabChoices == {<<>>, <<DarkRange>>, <<AnyRange>>}

PointZone == << [brightness |-> 128, contrast |-> 0] >>

ZoneChoices == {<<>>, ColourZone, GrayZone, DegenerateZone, PointZone}

PhaseChoices ==
    [id : 1..MaxPhases, name : {"phase"}, labRanges : LabChoices, bcZone : ZoneChoices]

\* the classifications: up to MaxPhases phases with distinct ids in 1..MaxPhases
Classifications ==
    {[phases |-> ps] :
        ps \in {q \in UNION {[1..n -> PhaseChoices] : n \in 0..MaxPhases} :
                    \A a, b \in DOMAIN q : a # b => q[a].id # q[b].id}}

\* the images: one row of up to MaxPixels palette pixels
Images == {<<row>> : row \in UNION {[1..w -> Palette] : w \in 1..MaxPixels}}

InitClassify ==
    /\ JobsUntouched
    /\ \E image \in Images, classification \in Classifications :
        input = [fn |-> "classify_image", image |-> image,
                 classification |-> classification]
    /\ output = <<>>

ClassifyImage ==
    /\ input.fn = "classify_image"
    /\ output = <<>>
    /\ output' = <<classify_image(input.image, input.classification)>>
    /\ UNCHANGED <<jobvars, input>>

NextClassify == ClassifyImage

SpecClassify == InitClassify /\ [][NextClassify]_vars

(***************************************************************************)
(* AggregationEngine on small rasters.                                     *)
(***************************************************************************)
\* a classification of the phases 1..n (their rules play no part here)
PhasesUpTo(n) ==
    [phases |-> [i \in 1..n |->
        [id |-> i, name |-> "phase", labRanges |-> <<AnyRange>>, bcZone |-> <<>>]]]

RasterHeights == {1, 2}

\* the rasters of the ids 0..n
Rasters(n) ==
    UNION {[1..h -> [1..w -> 0..n]] : h \in RasterHeights, w \in 1..MaxWidth}

InitAggregate ==
    /\ JobsUntouched
    /\ \E n \in 1..MaxPhases :
        \E classified \in Rasters(n), num_bins \in 1..MaxBins :
            input = [fn |-> "aggregate", classified |-> classified,
                     classification |-> PhasesUpTo(n),
                     x0 |-> 2, x1 |-> 8, width |-> Width(classified),
                     num_bins |-> num_bins]
    /\ output = [fractions |-> <<>>, distribution |-> <<>>]

CalculateArealFractions ==
    /\ input.fn = "aggregate"
    /\ output.fractions = <<>>
    /\ output' = [output EXCEPT
                    !.fractions = <<calculate_areal_fractions(input.classified,
                                                              input.classification)>>]
    /\ UNCHANGED <<jobvars, input>>

CalculateXDistribution ==
    /\ input.fn = "aggregate"
    /\ output.distribution = <<>>
    /\ output' = [output EXCEPT
                    !.distribution =
                        <<calculate_x_distribution(input.classified, input.classification,
                                                   input.x0, input.x1, input.width,
                                                   input.num_bins)>>]
    /\ UNCHANGED <<jobvars, input>>

NextAggregate == CalculateArealFractions \/ CalculateXDistribution

SpecAggregate == InitAggregate /\ [][NextAggregate]_vars

(***************************************************************************)
(* AggregationEngine: the column slices of wider rasters.                  *)
(***************************************************************************)
\* the widest raster whose slices are computed
MaxSliceWidth == 15

\* the most bins asked for when the slices are computed
MaxSliceBins == 15

\* lines 294-297: the column range [x_start, x_end) of every bin
ColumnRanges(width, num_bins) ==
    LET actual_bins == ActualBins(num_bins, width)
    IN  [k \in 1..actual_bins |->
            [x_start |-> TruncProduct(k - 1, width, actual_bins),
             x_end |-> TruncProduct(k, width, actual_bins)]]

\* one-row rasters of the given width: all unclassified, or phase 1 in every
\* second column
StripedRasters(width) ==
    { <<[c \in 1..width |-> 0]>>, <<[c \in 1..width |-> c % 2]>> }

InitSlices ==
    /\ JobsUntouched
    /\ \E width \in 1..MaxSliceWidth, num_bins \in 1..MaxSliceBins :
        \E classified \in StripedRasters(width) :
            input = [fn |-> "slices", classified |-> classified,
                     classification |-> PhasesUpTo(1),
                     x0 |-> 0, x1 |-> 30, width |-> width, num_bins |-> num_bins]
    /\ output = [ranges |-> <<>>, distribution |-> <<>>]

\* the loop of lines 294-297 alone: where each bin starts and ends
ComputeColumnRanges ==
    /\ input.fn = "slices"
    /\ output.ranges = <<>>
    /\ output' = [output EXCEPT
                    !.ranges = <<ColumnRanges(input.width, input.num_bins)>>]
    /\ UNCHANGED <<jobvars, input>>

\* calculate_x_distribution on the raster
DistributeColumns ==
    /\ input.fn = "slices"
    /\ output.distribution = <<>>
    /\ output' = [output EXCEPT
                    !.distribution =
                        <<calculate_x_distribution(input.classified, input.classification,
                                                   input.x0, input.x1, input.width,
                                                   input.num_bins)>>]
    /\ UNCHANGED <<jobvars, input>>

NextSlices == ComputeColumnRanges \/ DistributeColumns

SpecSlices == InitSlices /\ [][NextSlices]_vars

(***************************************************************************)
(* The job lifecycle: what the invocation in `call` was given and did.     *)
(***************************************************************************)
BatchSize == Len(call.images_data)

\* the job record of the invocation, while it is registered
CallJob == active_jobs[call.job_id]

Registered == call.pc # "idle" /\ call.job_id \in DOMAIN active_jobs

Terminal(status) == status \in {"completed", "failed"}

\* no image of the batch can raise: the classification passes the validation
\* and every file decodes (an empty batch processes no image at all)
AllProcessable ==
    \/ BatchSize = 0
    \/ /\ ValidateClassification(call.classification) = <<>>
       /\ \A n \in 1..BatchSize : call.images_data[n].file.decodable

\* the exception of the invocation was raised by process_single_image
ImageRaised ==
    /\ call.exc # <<>>
    /\ call.exc[1] \in {MissingPhasesMessage, NoPhasesMessage, NoRulesMessage,
                        DecodeMessage, NoMethodMessage}

\* C1: once a job's status is completed or failed, no step of create_job,
\* process_batch, get_job_status or create_export_zip gives the job, while it
\* is registered, another status.
C1_TerminalIrreversible ==
    [][\A j \in DOMAIN active_jobs :
          (Terminal(active_jobs[j].status) /\ j \in DOMAIN active_jobs')
              => active_jobs'[j].status = active_jobs[j].status]_vars

\* C2: a process_batch on a job fresh from create_job whose images all process
\* without an exception returns, and leaves the job completed with
\* progress.current = progress.total = N (as long as the job stays registered).
C2_SuccessfulBatchCompletes ==
    (/\ call.pc \in {"returned", "raised"}
     /\ call.entry = "created"
     /\ AllProcessable
     /\ Registered)
        => /\ call.pc = "returned"
           /\ CallJob.status = "completed"
           /\ CallJob.progress.current = BatchSize
           /\ CallJob.progress.total = BatchSize

C2_Witness ==
    /\ call.pc = "returned"
    /\ call.entry = "created"
    /\ BatchSize = 2
    /\ Registered
    /\ CallJob.status = "completed"
    /\ CallJob.progress.current = 2

\* C3: when the k-th image of a batch on a job fresh from create_job raises,
\* the job ends failed with progress.current = k.
C3_FailedBatchStallsAtK ==
    (/\ call.pc = "raised"
     /\ call.entry = "created"
     /\ ImageRaised
     /\ Registered)
        => /\ CallJob.status = "failed"
           /\ CallJob.progress.current = call.i + 1

\* C4: when image i raises, the images after it are not processed, the job is
\* failed with the exception's message as its error and the exception reaches
\* the caller; the invocation sets completed only after all N images succeeded.
C4_FailureAbortsBatch ==
    /\ (call.pc \in {"except", "raised"} /\ ImageRaised)
          => /\ call.i < BatchSize
             /\ Len(call.results) = call.i
             /\ call.returned = <<>>
    /\ (call.pc = "raised" /\ ImageRaised /\ Registered)
          => /\ CallJob.status = "failed"
             /\ CallJob.error = call.exc
    /\ (call.pc \in {"L598", "L599", "returned"})
          => /\ AllProcessable
             /\ Len(call.results) = BatchSize
             /\ call.exc = <<>>
    /\ (call.pc \in {"L409", "L454", "L597", "except", "raised"} /\ Registered
            /\ call.entry # "reused")
          => CallJob.status # "completed"

C4_Witness ==
    /\ call.pc = "raised"
    /\ call.exc = <<DecodeMessage>>
    /\ call.i = 1
    /\ BatchSize = 2
    /\ Registered
    /\ CallJob.status = "failed"
    /\ CallJob.error = <<DecodeMessage>>

\* C5: create_export_zip hands out an archive exactly when the job is
\* registered with status completed; otherwise it raises and yields no archive.
C5_ExportOnlyWhenCompleted ==
    ret.op = "create_export_zip"
        => /\ ~ret.value.raised
                <=> /\ ret.job_id \in DOMAIN active_jobs
                    /\ active_jobs[ret.job_id].status = "completed"
           /\ ret.value.raised
                => /\ "archive" \notin DOMAIN ret.value
                   /\ ret.value.error = ExportErrorMessage
           /\ ~ret.value.raised => "archive" \in DOMAIN ret.value

C5_Witness ==
    /\ ret.op = "create_export_zip"
    /\ ret.value.raised
    /\ ret.job_id \in DOMAIN active_jobs
    /\ active_jobs[ret.job_id].status = "processing"

\* a list of Results none of which carries a full-resolution artifact
ClientSafe(results) ==
    \A n \in DOMAIN results : DOMAIN results[n] \cap UnderscoreKeys = {}

\* C6: no value process_batch or get_job_status returns holds a Result with
\* the full-resolution original, overlay or raster.
C6_NoFullResolutionReturned ==
    /\ (call.pc = "returned") => ClientSafe(call.returned[1].results)
    /\ (ret.op = "get_job_status" /\ "results" \in DOMAIN ret.value)
          => ClientSafe(ret.value.results)

(***************************************************************************)
(* The classification and the aggregation: the properties.                 *)
(***************************************************************************)
\* the rule of a phase matches a pixel: its LAB ranges or its zone do
RuleMatches(rgb, phase_data) ==
    \/ HasLab(phase_data) /\ LabMatch(rgb, phase_data.labRanges[1])
    \/ /\ HasZone(phase_data)
       /\ vectorized_point_in_polygon(Features(<< <<rgb>> >>), phase_data.bcZone)[1][1]

\* the id of the first phase, in declaration order, whose rule matches; else 0
FirstMatch(rgb, phases) ==
    IF \E n \in DOMAIN phases : RuleMatches(rgb, phases[n])
    THEN phases[CHOOSE n \in DOMAIN phases :
                    /\ RuleMatches(rgb, phases[n])
                    /\ \A m \in 1..(n - 1) : ~RuleMatches(rgb, phases[m])].id
    ELSE 0

\* the raster after the first n phases of the classification in `input`
AfterPhases(n) ==
    ClassifyPhases(input.image, SubSeq(input.classification.phases, 1, n), 1,
                   [r \in DOMAIN input.image |-> [k \in DOMAIN input.image[r] |-> 0]])

\* C7: every pixel of the raster classify_image returns holds the id of the
\* first phase in declaration order whose rule matches it, 0 if none does, and
\* no phase overwrites a pixel that an earlier phase gave a nonzero id.
C7_FirstMatchWins ==
    (input.fn = "classify_image" /\ output # <<>> /\ ~output[1].raised)
        => /\ \A r \in DOMAIN input.image : \A k \in DOMAIN input.image[r] :
                output[1].classified[r][k] =
                    FirstMatch(input.image[r][k], input.classification.phases)
           /\ \A n \in 1..Len(input.classification.phases) :
                \A r \in DOMAIN input.image : \A k \in DOMAIN input.image[r] :
                    AfterPhases(n - 1)[r][k] # 0
                        => AfterPhases(n)[r][k] = AfterPhases(n - 1)[r][k]

\* a pixel that the rules of both phases match, holding the first phase's id
C7_Witness ==
    /\ input.fn = "classify_image"
    /\ output # <<>>
    /\ ~output[1].raised
    /\ Len(input.classification.phases) = 2
    /\ \E r \in DOMAIN input.image : \E k \in DOMAIN input.image[r] :
          /\ RuleMatches(input.image[r][k], input.classification.phases[1])
          /\ RuleMatches(input.image[r][k], input.classification.phases[2])
          /\ output[1].classified[r][k] = input.classification.phases[1].id

\* C8: for every polygon of at least 3 vertices and every pixel value, the
\* mask of vectorized_point_in_polygon equals point_in_polygon at that pixel.
C8_VectorizedMatchesScalar ==
    (input.fn = "point_in_polygon" /\ output.mask # <<>> /\ output.reference # <<>>)
        => \A r \in DOMAIN input.feat : \A k \in DOMAIN input.feat[r] :
              output.mask[1][r][k] = output.reference[1][r][k]

\* a polygon with a horizontal edge and a reflex vertex, some pixels in, some out
C8_Witness ==
    /\ input.fn = "point_in_polygon"
    /\ output.mask # <<>>
    /\ output.reference # <<>>
    /\ input.polygon = << [brightness |-> 0, contrast |-> 0],
                          [brightness |-> 2, contrast |-> 0],
                          [brightness |-> 1, contrast |-> 1],
                          [brightness |-> 1, contrast |-> 2] >>
    /\ \E r \in DOMAIN input.feat : \E k \in DOMAIN input.feat[r] : output.mask[1][r][k]
    /\ \E r \in DOMAIN input.feat : \E k \in DOMAIN input.feat[r] : ~output.mask[1][r][k]

RECURSIVE SumNum(_, _)
SumNum(f, S) ==
    IF S = {} THEN 0
    ELSE LET x == CHOOSE y \in S : TRUE
         IN  f[x].num + SumNum(f, S \ {x})

\* C9: calculate_areal_fractions returns one fraction per configured phase
\* and the bucket 0, each over the raster's pixel count, and they sum to 100.
C9_FractionsSumTo100 ==
    (input.fn = "aggregate" /\ output.fractions # <<>>)
        => LET f == output.fractions[1]
               total == Height(input.classified) * Width(input.classified)
           IN  /\ DOMAIN f = PhaseIds(input.classification) \cup {0}
               /\ \A id \in DOMAIN f : f[id].den = total /\ f[id].num >= 0
               /\ SumNum(f, DOMAIN f) = 100 * total

\* both phases and the unclassified bucket hold pixels
C9_Witness ==
    /\ input.fn = "aggregate"
    /\ output.fractions # <<>>
    /\ Len(input.classification.phases) = 2
    /\ \A id \in 0..2 : output.fractions[1][id].num > 0

\* C10: calculate_x_distribution makes min(num_bins, width) bins, never more
\* than the image has columns, and in every bin the pixel counts of the phases
\* and of the unclassified bucket add up to the bin's pixel count.
C10_BinsBoundedAndComplete ==
    (input.fn = "aggregate" /\ output.distribution # <<>>)
        => LET d == output.distribution[1]
               ids == PhaseIds(input.classification) \cup {0}
               bins == Len(d.xPositions)
           IN  /\ bins = Min(input.num_bins, input.width)
               /\ bins <= input.width
               /\ DOMAIN d.phaseFractions = ids
               /\ \A id \in ids : Len(d.phaseFractions[id]) = bins
               /\ \A k \in 1..bins :
                    LET f == [id \in ids |-> d.phaseFractions[id][k]]
                        columns == TruncProduct(k, input.width, bins)
                                     - TruncProduct(k - 1, input.width, bins)
                    IN  IF columns = 0
                        THEN \A id \in ids : f[id].num = 0
                        ELSE /\ \A id \in ids :
                                  /\ f[id].den = columns * Height(input.classified)
                                  /\ f[id].num >= 0
                             /\ SumNum(f, ids) = 100 * columns * Height(input.classified)

\* more bins asked for than the raster has columns, every id in one row
C10_Witness ==
    /\ input.fn = "aggregate"
    /\ output.distribution # <<>>
    /\ input.num_bins > input.width
    /\ input.width = 3
    /\ Len(output.distribution[1].xPositions) = 3
    /\ \E r \in DOMAIN input.classified : input.classified[r] = <<0, 1, 2>>

(***************************************************************************)
(* JobManager and ExportPackager: further properties.                      *)
(***************************************************************************)
\* C11: a create_job step registers a job under an id that was not in use,
\* with status pending, progress 0 of 0 and no results, returns that id, and
\* leaves every job registered before unchanged.
C11_CreateJobRegistersPending ==
    [][ret'.op = "create_job"
          => LET j == ret'.job_id
             IN  /\ ret'.value = j
                 /\ j \notin DOMAIN active_jobs
                 /\ j \notin issued
                 /\ DOMAIN active_jobs' = DOMAIN active_jobs \cup {j}
                 /\ active_jobs'[j].id = j
                 /\ active_jobs'[j].status = "pending"
                 /\ active_jobs'[j].progress.current = 0
                 /\ active_jobs'[j].progress.total = 0
                 /\ active_jobs'[j].results = <<>>
                 /\ \A k \in DOMAIN active_jobs : active_jobs'[k] = active_jobs[k]]_vars

\* create_job has just returned while another job is registered and completed
C11_Witness ==
    /\ ret.op = "create_job"
    /\ active_jobs[ret.job_id].status = "pending"
    /\ active_jobs[ret.job_id].results = <<>>
    /\ \E k \in DOMAIN active_jobs \ {ret.job_id} :
          /\ active_jobs[k].status = "completed"
          /\ Len(active_jobs[k].results) = 2

\* the export whose return value `ret` holds succeeded
Exported == ret.op = "create_export_zip" /\ ~ret.value.raised

\* the Results the exported job stores
ExportedResults == active_jobs[ret.job_id].results

\* the exported job is the job of the invocation, and stores its Results
ExportedBatch ==
    /\ Exported
    /\ call.pc \in {"L599", "returned"}
    /\ ret.job_id = call.job_id

\* how many entries of the sequence s have f(entry) = v
CountWhere(s, f(_), v) == Cardinality({k \in DOMAIN s : f(s[k]) = v})

\* C12: the CSV of an exported job has one data row per stored Result of the
\* job (one per image of the batch, once the batch has stored them), and the
\* rows are in non-decreasing order of X_Center whatever the submission order.
C12_CsvRowsSortedByXCenter ==
    Exported
        => LET rows == ret.value.archive.csv.rows
               RowName(row) == row.Image
               ResultName(r) == r.name
           IN  /\ Len(rows) = Len(ExportedResults)
               /\ \A k \in DOMAIN ExportedResults :
                     CountWhere(rows, RowName, ExportedResults[k].name)
                        = CountWhere(ExportedResults, ResultName, ExportedResults[k].name)
               /\ \A k \in 1..(Len(rows) - 1) : rows[k].X_Center <= rows[k + 1].X_Center
               /\ ExportedBatch => Len(rows) = BatchSize

\* a.png (centre 5) submitted before b.png (centre 1); b.png is the first row
C12_Witness ==
    /\ ExportedBatch
    /\ BatchSize = 2
    /\ call.images_data[1].name = "a.png"
    /\ call.images_data[2].name = "b.png"
    /\ ret.value.archive.csv.rows[1].Image = "b.png"
    /\ ret.value.archive.csv.rows[2].Image = "a.png"

\* the ids of a classification as the strictly ascending sequence
AscendingIds(classification) ==
    LET ids == PhaseIds(classification)
    IN  CHOOSE q \in [1..Cardinality(ids) -> ids] :
            \A a, b \in 1..Cardinality(ids) : a < b => q[a] < q[b]

\* the percentage of the pixels of a raster that hold id, in hundredths
IndependentFraction(raster, id) ==
    Format2(Percent(CountEq(raster, id), Height(raster) * Width(raster)))

\* C13: the fraction columns of the CSV are the phases of the classification
\* in ascending id, then the unclassified column, and each cell of a row is
\* the areal fraction of that phase id in the raster of the row's image.
C13_CsvFractionColumns ==
    Exported
        => LET csv == ret.value.archive.csv
               phases == PhasesOf(ret.classification)
               ids == AscendingIds(ret.classification)
           IN  /\ Len(csv.header) = Len(phases)
               /\ \A c \in DOMAIN ids :
                     \E n \in DOMAIN phases :
                        phases[n].id = ids[c] /\ csv.header[c] = phases[n].name
               /\ \A k \in DOMAIN csv.rows : \A n \in DOMAIN ExportedResults :
                     ExportedResults[n].name = csv.rows[k].Image
                        => LET raster == ExportedResults[n]._full_classified
                           IN  /\ Len(csv.rows[k].phase_columns) = Len(ids)
                               /\ \A c \in DOMAIN ids :
                                     csv.rows[k].phase_columns[c]
                                        = IndependentFraction(raster, ids[c])
                               /\ csv.rows[k].Unclassified
                                        = IndependentFraction(raster, 0)

\* the export of b.png and a.png under the two-phase classification, whose
\* second declared phase has the smaller id: columns colour (1), dark (2)
C13_Witness ==
    /\ Exported
    /\ ret.classification = CfgValid
    /\ ret.value.archive.csv.header = <<"colour", "dark">>
    /\ Len(ret.value.archive.csv.rows) = 2
    /\ ret.value.archive.csv.rows[1].Image = "b.png"
    /\ ret.value.archive.csv.rows[1].phase_columns = <<0, 5000>>
    /\ ret.value.archive.csv.rows[1].Unclassified = 5000
    /\ ret.value.archive.csv.rows[2].Image = "a.png"
    /\ ret.value.archive.csv.rows[2].phase_columns = <<5000, 5000>>
    /\ ret.value.archive.csv.rows[2].Unclassified = 0

\* how many entries of the exported archive have the name n
EntriesNamed(n) ==
    Cardinality({k \in DOMAIN ret.value.archive.namelist :
                    ret.value.archive.namelist[k] = n})

\* how many stored Results of the exported job have the name n
ImagesNamed(n) ==
    Cardinality({k \in DOMAIN ExportedResults : ExportedResults[k].name = n})

\* C14: the archive of an exported job of N images holds batch_results.csv,
\* metadata.json, N entries under originals/ and N under classified/, one
\* originals/<name> and one classified/<name> for each image, and nothing
\* else; metadata.json gives the image count N.
C14_ArchiveLayout ==
    Exported
        => LET archive == ret.value.archive
               N == Len(ExportedResults)
               names == {ExportedResults[k].name : k \in DOMAIN ExportedResults}
           IN  /\ EntriesNamed("batch_results.csv") = 1
               /\ EntriesNamed("metadata.json") = 1
               /\ \A n \in names :
                     /\ EntriesNamed("originals/" \o n) = ImagesNamed(n)
                     /\ EntriesNamed("classified/" \o n) = ImagesNamed(n)
               /\ Len(archive.namelist) = 2 * N + 2
               /\ Len(archive.originals) = N
               /\ Len(archive.classified) = N
               /\ \A k \in 1..N :
                     /\ archive.originals[k].image = ExportedResults[k]._full_original
                     /\ archive.classified[k].image = ExportedResults[k]._full_overlay
               /\ archive.metadata.num_images = N
               /\ archive.metadata.job_id = ret.job_id
               /\ ExportedBatch
                     => /\ N = BatchSize
                        /\ \A k \in 1..N :
                              ExportedResults[k].name = call.images_data[k].name

\* the archive of the batch a.png, b.png
C14_Witness ==
    /\ ExportedBatch
    /\ BatchSize = 2
    /\ ret.value.archive.namelist =
          <<"batch_results.csv", "originals/a.png", "originals/b.png",
            "classified/a.png", "classified/b.png", "metadata.json">>
    /\ ret.value.archive.metadata.num_images = 2

\* the invocation has executed line 584: it has set its job to processing
Started ==
    \/ call.pc \in {"L585", "L409", "L454", "L597", "L598", "L599", "returned"}
    \/ call.pc \in {"except", "raised"} /\ call.raised_at # "L584"

\* C15: whatever get_job_status, create_export_zip and cleanup_job calls run
\* in between, an invocation that has set its job to processing leaves the job
\* recorded as completed when it returns and as failed when it raises.
C15_StartedBatchEndsTerminal ==
    [][/\ (call.pc = "L599" /\ call'.pc = "returned")
            => /\ call.job_id \in DOMAIN active_jobs'
               /\ active_jobs'[call.job_id].status = "completed"
       /\ (call.pc = "except" /\ call'.pc = "raised" /\ Started)
            => /\ call.job_id \in DOMAIN active_jobs'
               /\ active_jobs'[call.job_id].status = "failed"]_vars

(***************************************************************************)
(* ClassificationEngine: further properties.                               *)
(***************************************************************************)
\* classify_image has returned a raster for the image in `input`
Classified == input.fn = "classify_image" /\ output # <<>> /\ ~output[1].raised

\* the zone of a phase holds the pixel
InZone(rgb, phase_data) ==
    vectorized_point_in_polygon(Features(<< <<rgb>> >>), phase_data.bcZone)[1][1]

\* C16: when some phase of the classification declares LAB ranges, a phase
\* that declares only a zone gives its id to no pixel of the raster.
C16_MethodSelectionGlobal ==
    Classified
        => LET phases == input.classification.phases
           IN  (\E n \in DOMAIN phases : HasLab(phases[n]))
                  => \A n \in DOMAIN phases :
                        (~HasLab(phases[n]) /\ HasZone(phases[n]))
                            => \A r \in DOMAIN input.image :
                                  \A k \in DOMAIN input.image[r] :
                                      output[1].classified[r][k] # phases[n].id

\* C17: a phase that declares both LAB ranges and a zone does not take a
\* pixel, unclassified when the phase is reached, that lies inside its zone
\* but outside its LAB ranges.
C17_LabOnlyWhenBothDeclared ==
    Classified
        => LET phases == input.classification.phases
           IN  \A n \in DOMAIN phases :
                  (HasLab(phases[n]) /\ HasZone(phases[n]))
                     => \A r \in DOMAIN input.image : \A k \in DOMAIN input.image[r] :
                           (/\ AfterPhases(n - 1)[r][k] = 0
                            /\ InZone(input.image[r][k], phases[n])
                            /\ ~LabMatch(input.image[r][k], phases[n].labRanges[1]))
                               => AfterPhases(n)[r][k] # phases[n].id

(***************************************************************************)
(* JobManager: configuration errors, stored results and progress.          *)
(***************************************************************************)
ConfigurationErrors == {MissingPhasesMessage, NoPhasesMessage, NoRulesMessage}

\* the classification of the invocation has no phases, or none with a rule
Unusable ==
    \/ Len(PhasesOf(call.classification)) = 0
    \/ \A n \in DOMAIN PhasesOf(call.classification) :
          /\ ~HasLab(PhasesOf(call.classification)[n])
          /\ ~HasZone(PhasesOf(call.classification)[n])

\* C18: under a classification with no phases, or with no phase that has a
\* rule, processing an image raises a configuration error before the image is
\* decoded or classified, no raster or Result is produced, and the batch is
\* aborted with the job failed.
C18_UnusableConfigurationAborts ==
    (InFlight \/ call.pc \in {"returned", "raised"}) /\ Unusable /\ BatchSize > 0
        => /\ call.pc \notin {"L454", "L597", "L598", "L599", "returned"}
           /\ call.i = 0
           /\ call.results = <<>>
           /\ (call.pc \in {"except", "raised"} /\ call.raised_at = "L409")
                 => call.exc[1] \in ConfigurationErrors
           /\ (call.pc = "raised" /\ call.raised_at = "L409" /\ Registered)
                 => /\ CallJob.status = "failed"
                    /\ CallJob.error = call.exc
                    /\ CallJob.results = <<>> \/ call.entry = "reused"

\* a two-image batch under the classification whose only phase has no rule
C18_Witness ==
    /\ call.pc = "raised"
    /\ call.classification = CfgNoRules
    /\ BatchSize = 2
    /\ call.raised_at = "L409"
    /\ call.exc = <<NoRulesMessage>>
    /\ Registered
    /\ CallJob.status = "failed"

\* C19: while a batch is in flight, and after it failed, the Results the job
\* stores (and a get_job_status shows) are the Results of the images the
\* invocation has completed so far, in submission order.
C19_ResultsAppendedPerImage ==
    /\ (Started /\ Registered)
          => /\ Len(CallJob.results) = call.i
             /\ \A n \in 1..call.i : CallJob.results[n].name = call.images_data[n].name
    /\ (Started /\ ret.op = "get_job_status" /\ ret.job_id = call.job_id
            /\ "results" \in DOMAIN ret.value)
          => Len(ret.value.results) = call.i

\* C20: the job's progress reads current = i + 1, total = N once any
\* processing step of image i (0-based) of an N-image batch has run: while the
\* image is decoded and classified, and when its validation has raised.
C20_ProgressBeforeImage ==
    /\ (call.pc = "L454" /\ Registered)
          => /\ CallJob.progress.current = call.i + 1
             /\ CallJob.progress.total = BatchSize
    /\ (call.pc = "except" /\ call.raised_at = "L409"
            /\ call.exc[1] \in ConfigurationErrors /\ Registered)
          => /\ CallJob.progress.current = call.i + 1
             /\ CallJob.progress.total = BatchSize

(***************************************************************************)
(* JobManager: unknown job ids.                                            *)
(***************************************************************************)
\* process_batch is entered in this step with a job id that is not registered
EntersUnknown ==
    /\ ~InFlight
    /\ call'.pc = "L584"
    /\ call' # call
    /\ call'.job_id \notin DOMAIN active_jobs

\* C21: process_batch entered with a job id that is not registered raises
\* nothing on the lookup and registers a record for that id with status
\* pending, progress 0 of 0 and no results, every other job left as it was;
\* the batch then runs as on a job fresh from create_job: when every image
\* processes it returns with the job completed, progress N of N and the N
\* Results stored, and when an image raises the job is failed with the message.
C21_UnknownJobRecreated ==
    [][/\ EntersUnknown
            => LET j == call'.job_id
               IN  /\ call'.exc = <<>>
                   /\ DOMAIN active_jobs' = DOMAIN active_jobs \cup {j}
                   /\ active_jobs'[j].id = j
                   /\ active_jobs'[j].status = "pending"
                   /\ active_jobs'[j].progress.current = 0
                   /\ active_jobs'[j].progress.total = 0
                   /\ active_jobs'[j].results = <<>>
                   /\ \A k \in DOMAIN active_jobs : active_jobs'[k] = active_jobs[k]
       /\ (/\ call.pc \in {"returned", "raised"}
           /\ call.entry = "recreated"
           /\ AllProcessable
           /\ Registered)
            => /\ call.pc = "returned"
               /\ CallJob.status = "completed"
               /\ CallJob.progress.current = BatchSize
               /\ CallJob.progress.total = BatchSize
               /\ CallJob.results = call.results
               /\ Len(CallJob.results) = BatchSize
       /\ (/\ call.pc = "raised"
           /\ call.entry = "recreated"
           /\ ImageRaised
           /\ Registered)
            => /\ CallJob.status = "failed"
               /\ CallJob.error = call.exc]_vars

\* a two-image batch on an id that was never created has returned
C21_Witness ==
    /\ call.pc = "returned"
    /\ call.entry = "recreated"
    /\ BatchSize = 2
    /\ Registered
    /\ CallJob.status = "completed"
    /\ Len(CallJob.results) = 2

(***************************************************************************)
(* ZoneClassifier: degenerate polygons.                                    *)
(***************************************************************************)
\* the phase declares a zone of 1 or 2 vertices
DegenerateZoned(phase_data) == Len(phase_data.bcZone) \in {1, 2}

\* C22: classify_image on a classification in which some phase declares a
\* zone of 1 or 2 vertices raises an error: it returns no phase raster (and so
\* no zone pass has been run with that polygon).
C22_DegenerateZoneRejected ==
    (/\ input.fn = "classify_image"
     /\ output # <<>>
     /\ \E n \in DOMAIN input.classification.phases :
            DegenerateZoned(input.classification.phases[n]))
        => output[1].raised

(***************************************************************************)
(* AggregationEngine: the column slices.                                   *)
(***************************************************************************)
\* the pixels the bins of the distribution d counted, over the ids
PixelsCounted(d, ids) ==
    SumSeq([k \in DOMAIN d.xPositions |->
                SumNum([id \in ids |-> d.phaseFractions[id][k]], ids) \div 100])

\* C23: the column ranges of calculate_x_distribution, for bins =
\* min(num_bins, width), are [floor(i*width/bins), floor((i+1)*width/bins)):
\* each is non-empty, each ends where the next starts, the first starts at
\* column 0 and the last ends at column width, so every column lies in exactly
\* one range, no bin is empty and the bins count every pixel of the raster.
C23_SlicesPartitionImage ==
    /\ (input.fn = "slices" /\ output.ranges # <<>>)
          => LET s == output.ranges[1]
                 bins == Min(input.num_bins, input.width)
             IN  /\ Len(s) = bins
                 /\ \A k \in 1..bins :
                        /\ s[k].x_start = ((k - 1) * input.width) \div bins
                        /\ s[k].x_end = (k * input.width) \div bins
                        /\ s[k].x_start < s[k].x_end
                 /\ \A k \in 1..(bins - 1) : s[k].x_end = s[k + 1].x_start
                 /\ s[1].x_start = 0
                 /\ s[bins].x_end = input.width
                 /\ \A c \in 0..(input.width - 1) :
                        Cardinality({k \in 1..bins :
                                        s[k].x_start <= c /\ c < s[k].x_end}) = 1
    /\ (input.fn = "slices" /\ output.distribution # <<>>)
          => PixelsCounted(output.distribution[1], {0, 1})
                = input.width * Height(input.classified)

(***************************************************************************)
(* JobManager: what concurrent readers see.                                *)
(***************************************************************************)
\* C24: in every state, those between two statements of a process_batch in
\* flight included, a job with status completed stores exactly progress.total
\* Results, and an export that succeeds packages that many images.
C24_CompletedHasAllResults ==
    /\ \A j \in DOMAIN active_jobs :
          active_jobs[j].status = "completed"
              => Len(active_jobs[j].results) = active_jobs[j].progress.total
    /\ Exported
          => /\ ret.value.archive.metadata.num_images
                   = active_jobs[ret.job_id].progress.total
             /\ Len(ret.value.archive.csv.rows)
                   = active_jobs[ret.job_id].progress.total

\* C25: in every state, whatever create_job and process_batch calls came
\* before (a job processed again with a batch of another size included),
\* every job has 0 <= progress.current <= progress.total.
C25_ProgressWithinTotal ==
    \A j \in DOMAIN active_jobs :
        /\ 0 <= active_jobs[j].progress.current
        /\ active_jobs[j].progress.current <= active_jobs[j].progress.total

\* this step is a get_job_status or a create_export_zip
ReadStep == ret' # ret /\ ret'.op \in {"get_job_status", "create_export_zip"}

\* C26: a get_job_status or create_export_zip step, whether it succeeds or
\* fails, leaves the registry as it was: no record added or removed, no
\* status, progress, results or error changed.  get_job_status on an id that
\* is not registered returns status not_found and registers nothing, and
\* create_export_zip on a job that is missing or not completed raises.
C26_ReadsLeaveRegistry ==
    [][ReadStep
          => /\ active_jobs' = active_jobs
             /\ DOMAIN active_jobs' = DOMAIN active_jobs
             /\ (ret'.op = "get_job_status" /\ ret'.job_id \notin DOMAIN active_jobs)
                    => /\ ret'.value = [status |-> "not_found"]
                       /\ ret'.job_id \notin DOMAIN active_jobs'
             /\ (ret'.op = "get_job_status" /\ ret'.job_id \in DOMAIN active_jobs)
                    => ret'.value = active_jobs[ret'.job_id]
             /\ (/\ ret'.op = "create_export_zip"
                 /\ \/ ret'.job_id \notin DOMAIN active_jobs
                    \/ active_jobs[ret'.job_id].status # "completed")
                    => ret'.value.raised]_vars

\* a status read of an id that is not registered has returned not_found while
\* a batch on another job is in flight
C26_Witness ==
    /\ ret.op = "get_job_status"
    /\ ret.job_id \notin DOMAIN active_jobs
    /\ ret.value.status = "not_found"
    /\ InFlight
    /\ Registered
    /\ CallJob.status = "processing"

====
